---- MODULE Spec2Model ----
(***************************************************************************)
(* A model of the dispatch engine of the load balancer in src/lb/main.go:  *)
(* the registry built by main, the request path ServeHTTP / selectServer,  *)
(* and the health monitor healthCheck with its per-cycle probe goroutines. *)
(*                                                                         *)
(* Every step of the model is one access to shared memory (an atomic load, *)
(* add or store) together with the goroutine-local code that follows it up *)
(* to the next shared access.                                              *)
(***************************************************************************)
EXTENDS Integers, Sequences, FiniteSets, TLC

(***************************************************************************)
(* Bounds of the model.                                                    *)
(***************************************************************************)
\* The longest registry a configuration file declares.
MaxServers == 2
\* The largest MaximumActiveConnections a configuration declares; the
\* smallest is -1, since main accepts any integer.
MaxCap == 2
\* The number of goroutines net/http runs ServeHTTP on at the same time.
NumHandlers == 2
\* The number of requests that arrive in one run.
MaxRequests == 2
\* In the selector's specification: the largest CurrentActiveConnections
\* of a registry snapshot.
MaxActive == 3

\* The largest value a configuration file gives a counter of the running
\* process (CurrentActiveConnections, TotalActiveConnections,
\* TotalRequests); the smallest is -1, since json.Unmarshal accepts any
\* integer.
MaxStart == 1
\* The number of irregular entries of a configuration file: a capacity
\* that is not positive, an address url.Parse rejects, a counter with a
\* value other than 0, a "Servers" array that is empty.
MaxIrregular == 1

Handlers == 1..NumHandlers

Capacities == (0 - 1)..MaxCap

StartCounts == (0 - 1)..MaxStart

(***************************************************************************)
(* Program constants.                                                      *)
(***************************************************************************)
\* http.StatusOK, the only status the probe accepts (line 97).
StatusOK == 200

\* The value of a probe whose client.Get returned an error (refused, timed
\* out after the client's 5 s, unparseable address): there is no status.
ProbeError == 0

\* The default of the -health-timeout flag, in seconds (line 230).
DefaultHealthTimeout == 120

\* The values of -health-timeout in the model: 0, which time.NewTicker
\* refuses as it refuses every value below, and the default.
HealthTimeouts == {0, DefaultHealthTimeout}

\* The statuses a backend's /health answers with in the model: 200 and a
\* status other than 200, which the probe refuses though it is a 2xx.
ReplyStatuses == {StatusOK, 204}

VARIABLES
    phase,
    conf,
    Servers,
    CurrentActiveConnections,
    Status,
    TotalActiveConnections,
    TotalRequests,
    pc,
    i,
    currentConns,
    optimalServer,
    response,
    sawQualifying,
    scan,
    acct,
    totalIncs,
    returned,
    mpc,
    mi,
    wg,
    probe,
    outcome,
    launches,
    stores

srvVars == <<Servers, CurrentActiveConnections, Status>>

cntVars == <<TotalActiveConnections, TotalRequests, totalIncs, returned>>

reqVars == <<pc, i, currentConns, optimalServer, response, sawQualifying, scan, acct>>

monVars == <<mpc, mi, wg, probe, outcome, launches, stores>>

vars == <<phase, conf, srvVars, cntVars, reqVars, monVars>>

(***************************************************************************)
(* float64 division and comparison, as selectServer uses them.  The        *)
(* operands are int64 converted to float64; for the magnitudes of the      *)
(* model the conversion and the quotient's comparisons are exact, so a     *)
(* finite load is kept as the fraction n/d with d > 0.  Division by zero   *)
(* follows IEEE 754: 0/0 is NaN, x/0 is an infinity of x's sign.           *)
(***************************************************************************)
Load(conns, cap) ==
    IF cap = 0
    THEN IF conns = 0 THEN [k |-> "nan", n |-> 0, d |-> 1]
         ELSE IF conns > 0 THEN [k |-> "pinf", n |-> 0, d |-> 1]
         ELSE [k |-> "ninf", n |-> 0, d |-> 1]
    ELSE IF cap > 0 THEN [k |-> "fin", n |-> conns, d |-> cap]
    ELSE [k |-> "fin", n |-> 0 - conns, d |-> 0 - cap]

\* currentLoad > 1.0: the comparison a selector that admits a full server makes.
LoadAboveOne(l) ==
    \/ l.k = "pinf"
    \/ l.k = "fin" /\ l.n > l.d

\* currentLoad >= 1.0 (false for NaN).
LoadAtLeastOne(l) ==
    \/ l.k = "pinf"
    \/ l.k = "fin" /\ l.n >= l.d

\* x <= y: the comparison a selector that lets a later server win a tie makes.
LoadLessOrEqual(x, y) ==
    CASE x.k = "nan" \/ y.k = "nan" -> FALSE
      [] x.k = "ninf" -> TRUE
      [] y.k = "pinf" -> TRUE
      [] x.k = "pinf" \/ y.k = "ninf" -> FALSE
      [] OTHER -> x.n * y.d <= y.n * x.d

\* x < y (false when either is NaN).
LoadLess(x, y) ==
    CASE x.k = "nan" \/ y.k = "nan" -> FALSE
      [] x.k = "ninf" -> y.k # "ninf"
      [] y.k = "pinf" -> x.k # "pinf"
      [] x.k = "pinf" \/ y.k = "ninf" -> FALSE
      [] OTHER -> x.n * y.d < y.n * x.d

MaximumActiveConnections(s) == Servers[s].MaximumActiveConnections

ServerIdx == 1..Len(Servers)

(***************************************************************************)
(* The configuration file main reads.                                      *)
(***************************************************************************)
\* One element of "Servers": its capacity, the connection count the file
\* gives it (0 when the element has no such key) and whether url.Parse
\* accepts its URL.
Descriptor ==
    [MaximumActiveConnections : Capacities,
     CurrentActiveConnections : StartCounts,
     urlOK : BOOLEAN]

\* The "Servers" arrays of a file: any length from 0, any capacities.
ServerLists == UNION {[1..n -> Descriptor] : n \in 0..MaxServers}

RECURSIVE Irregular(_, _)
\* The number of irregular entries in the first n elements of list.
Irregular(list, n) ==
    IF n = 0
    THEN 0
    ELSE Irregular(list, n - 1)
             + (IF list[n].MaximumActiveConnections <= 0 THEN 1 ELSE 0)
             + (IF list[n].urlOK THEN 0 ELSE 1)
             + (IF list[n].CurrentActiveConnections # 0 THEN 1 ELSE 0)

\* What json.Unmarshal decodes into the LoadBalancer: the "Servers" array
\* and the two counters of the process, each 0 when the file has no key of
\* its name.
Files ==
    {f \in [Servers : ServerLists,
            TotalActiveConnections : StartCounts,
            TotalRequests : StartCounts] :
        Irregular(f.Servers, Len(f.Servers))
            + (IF Len(f.Servers) = 0 THEN 1 ELSE 0)
            + (IF f.TotalActiveConnections # 0 THEN 1 ELSE 0)
            + (IF f.TotalRequests # 0 THEN 1 ELSE 0) <= MaxIrregular}

\* What main has read: the file's two process counters and the flag.
Configuration(file, pause) ==
    [TotalActiveConnections |-> file.TotalActiveConnections,
     TotalRequests |-> file.TotalRequests,
     healthPause |-> pause]

\* A file without counter keys, and the flag's default.
PlainConfiguration ==
    [TotalActiveConnections |-> 0, TotalRequests |-> 0,
     healthPause |-> DefaultHealthTimeout]

\* What the file named by -servers is: missing, not JSON, JSON with a
\* "Status" key in an element, or JSON without one.
FileKinds == {"unreadable", "malformed", "statusKey", "plain"}

\* json.Unmarshal's error: the text is not JSON, or an element sets
\* "Status", a bool, which encoding/json cannot store in an atomic.Bool
\* (a struct with no UnmarshalJSON): an UnmarshalTypeError.
UnmarshalFails(kind) == kind \in {"malformed", "statusKey"}

ZeroAcct == [incS |-> <<>>, decS |-> <<>>, incT |-> 0, decT |-> 0, fwd |-> <<>>]

Init ==
    /\ phase = "boot"
    /\ conf = PlainConfiguration
    /\ Servers = <<>>
    /\ CurrentActiveConnections = <<>>
    /\ Status = <<>>
    /\ TotalActiveConnections = 0
    /\ TotalRequests = 0
    /\ totalIncs = 0
    /\ returned = 0
    /\ pc = [h \in Handlers |-> "idle"]
    /\ i = [h \in Handlers |-> 0]
    /\ currentConns = [h \in Handlers |-> 0]
    /\ optimalServer = [h \in Handlers |-> 0]
    /\ response = [h \in Handlers |-> "none"]
    /\ sawQualifying = [h \in Handlers |-> FALSE]
    /\ scan = [h \in Handlers |-> <<>>]
    /\ acct = [h \in Handlers |-> ZeroAcct]
    /\ mpc = "off"
    /\ mi = 0
    /\ wg = 0
    /\ probe = <<>>
    /\ outcome = <<>>
    /\ launches = <<>>
    /\ stores = <<>>

\* The LoadBalancer after json.Unmarshal and setupReversProxies, with the
\* monitor's goroutine and the listener started.
Serve(file, pause) ==
    /\ phase' = "serving"
    /\ conf' = Configuration(file, pause)
    /\ Servers' = file.Servers
    /\ CurrentActiveConnections' =
           [s \in 1..Len(file.Servers) |-> file.Servers[s].CurrentActiveConnections]
    /\ Status' = [s \in 1..Len(file.Servers) |-> FALSE]
    /\ TotalActiveConnections' = file.TotalActiveConnections
    /\ TotalRequests' = file.TotalRequests
    /\ mpc' = "ticker"
    /\ mi' = 1
    /\ wg' = 0
    /\ probe' = [s \in 1..Len(file.Servers) |-> "idle"]
    /\ outcome' = [s \in 1..Len(file.Servers) |-> ProbeError]
    /\ launches' = [s \in 1..Len(file.Servers) |-> 0]
    /\ stores' = [s \in 1..Len(file.Servers) |-> 0]

\* main, from os.ReadFile to the start of the goroutines.  nilDeref is the
\* toolchain's choice: httputil.NewSingleHostReverseProxy(nil) dereferences
\* its argument when called (go 1.19) or only when a request is forwarded
\* (go 1.20 and later).
Main(kind, file, pause, nilDeref) ==
    /\ phase = "boot"
    /\ IF kind = "unreadable" \/ UnmarshalFails(kind)
       THEN /\ phase' = "exited"
            /\ UNCHANGED <<conf, srvVars, TotalActiveConnections, TotalRequests, monVars>>
       ELSE IF nilDeref /\ \E s \in 1..Len(file.Servers) : ~file.Servers[s].urlOK
       THEN /\ phase' = "crashed"
            /\ UNCHANGED <<conf, srvVars, TotalActiveConnections, TotalRequests, monVars>>
       ELSE Serve(file, pause)
    /\ UNCHANGED <<totalIncs, returned, reqVars>>

(***************************************************************************)
(* The request path: ServeHTTP and selectServer, one goroutine per         *)
(* handler h.  pc[h] is the next shared access of h:                       *)
(*   idle, done  not in ServeHTTP (done: its last request has returned)    *)
(*   load        line 60, the atomic load of Servers[i]'s connections      *)
(*   status      line 61, Status.Load of Servers[i]                        *)
(*   compare     line 68, the atomic load of optimalServer's connections   *)
(*   incServer   line 46    incTotal  line 47    forward  line 54          *)
(*   decServer   line 50    decTotal  line 51                              *)
(* optimalServer[h] is an index into Servers, 0 for nil.                   *)
(***************************************************************************)
\* The process runs: an unrecovered panic in one goroutine, os.Exit and
\* the return of main end every goroutine.
Running == phase = "serving"

\* The requests that have entered ServeHTTP.
Entered == returned + Cardinality({h \in Handlers : pc[h] \notin {"idle", "done"}})

\* The request counter left alone, as in the program before it had one.
RequestNotCounted == 1 - 1

\* What ServeHTTP adds to TotalRequests on entry.
RequestDelta == 1

\* What ServeHTTP adds to the two connection counters before the forward.
IncDelta == 1

\* What line 46 adds to the chosen server's counter.
ServerIncDelta == IncDelta

\* What the deferred function adds to the two connection counters.
DecDelta == -1

\* A guard that looks at the load alone.
SkipsFullOnly(s, conns) == LoadAtLeastOne(Load(conns, MaximumActiveConnections(s)))

\* A guard that looks at the status alone.
SkipsUnhealthyOnly(s, conns) == ~Status[s]

\* The guard of line 61's continue, with the connections read at line 60.
Skips(s, conns) ==
    \/ ~Status[s]
    \/ LoadAtLeastOne(Load(conns, MaximumActiveConnections(s)))

\* currentLoad <= optimalLoad: a later server wins a tie.
ReplacesOptimalOnTie(s, conns, opt) ==
    LoadLessOrEqual(Load(conns, MaximumActiveConnections(s)),
                    Load(CurrentActiveConnections[opt], MaximumActiveConnections(opt)))

\* Line 69: currentLoad < optimalLoad, optimalLoad from the load of line 68.
ReplacesOptimal(s, conns, opt) ==
    LoadLess(Load(conns, MaximumActiveConnections(s)),
             Load(CurrentActiveConnections[opt], MaximumActiveConnections(opt)))

\* A forward that is tried again when the backend could not be reached.
AfterForwardRetries(result) == IF result = "badGateway" THEN "forward" ELSE "decServer"

\* A forward without the defer: a panic leaves ServeHTTP at once.
AfterForwardNoDefer(result) == IF result = "aborted" THEN "done" ELSE "decServer"

\* Where ServeHTTP goes when ReverseProxy.ServeHTTP returns or panics: the
\* deferred function of lines 49-52 runs on every exit.
AfterForward(result) == "decServer"

\* How ReverseProxy.ServeHTTP ends: the backend's reply was relayed, the
\* proxy's error handler answered 502, or it panicked with ErrAbortHandler.
ForwardResults == {"relayed", "badGateway", "aborted"}

\* The mark of an iteration that read no connection count it used.
NotRead == (0 - 2) - MaxRequests

\* What one iteration of selectServer's loop read: conns, the connections
\* of Servers[i] loaded at line 60, NotRead if line 61 passed over the
\* server; best, the optimalServer line 68 compared it with, 0 if it was
\* not compared; bestConns, the connections of best loaded at line 68.
Observation(conns, best, bestConns) ==
    [conns |-> conns, best |-> best, bestConns |-> bestConns]

\* scan[h] lists the observations of h's scan so far, one per server
\* visited; it is dropped when the scan returns nil, and when the server
\* returned has been incremented.
Observe(h, opt, obs) ==
    scan' = [scan EXCEPT ![h] =
                IF i[h] = Len(Servers) /\ opt = 0 THEN <<>> ELSE Append(@, obs)]

\* The end of one iteration of selectServer's loop with optimalServer = opt:
\* the next iteration, or the return and ServeHTTP's lines 41-44.
EndIteration(h, opt) ==
    /\ optimalServer' = [optimalServer EXCEPT ![h] = opt]
    /\ currentConns' = [currentConns EXCEPT ![h] = 0]
    /\ IF i[h] < Len(Servers)
       THEN /\ i' = [i EXCEPT ![h] = i[h] + 1]
            /\ pc' = [pc EXCEPT ![h] = "load"]
            /\ UNCHANGED <<response, returned>>
       ELSE /\ i' = [i EXCEPT ![h] = 0]
            /\ IF opt = 0
               THEN /\ pc' = [pc EXCEPT ![h] = "done"]
                    /\ response' = [response EXCEPT ![h] = "unavailable"]
                    /\ returned' = returned + 1
               ELSE /\ pc' = [pc EXCEPT ![h] = "incServer"]
                    /\ UNCHANGED <<response, returned>>

\* Line 38, and the entry into selectServer's loop.
Enter(h) ==
    /\ Running
    /\ pc[h] \in {"idle", "done"}
    /\ Entered < MaxRequests
    /\ TotalRequests' = TotalRequests + RequestDelta
    /\ acct' = [acct EXCEPT ![h] = ZeroAcct]
    /\ sawQualifying' = [sawQualifying EXCEPT ![h] = FALSE]
    /\ scan' = [scan EXCEPT ![h] = <<>>]
    /\ IF Len(Servers) = 0
       THEN /\ pc' = [pc EXCEPT ![h] = "done"]
            /\ response' = [response EXCEPT ![h] = "unavailable"]
            /\ returned' = returned + 1
            /\ optimalServer' = [optimalServer EXCEPT ![h] = 0]
            /\ UNCHANGED <<i, currentConns>>
       ELSE /\ pc' = [pc EXCEPT ![h] = "load"]
            /\ i' = [i EXCEPT ![h] = 1]
            /\ optimalServer' = [optimalServer EXCEPT ![h] = 0]
            /\ response' = [response EXCEPT ![h] = "none"]
            /\ UNCHANGED <<currentConns, returned>>
    /\ UNCHANGED <<phase, conf, srvVars, TotalActiveConnections, totalIncs, monVars>>

\* Line 60: currentLoad from the atomic load of Servers[i]'s connections.
ScanLoad(h) ==
    /\ Running
    /\ pc[h] = "load"
    /\ currentConns' = [currentConns EXCEPT ![h] = CurrentActiveConnections[i[h]]]
    /\ pc' = [pc EXCEPT ![h] = "status"]
    /\ UNCHANGED <<phase, conf, srvVars, cntVars, i, optimalServer, response,
                   sawQualifying, scan, acct, monVars>>

\* Lines 61-67: Status.Load, the continue, and the first candidate.
ScanStatus(h) ==
    /\ Running
    /\ pc[h] = "status"
    /\ sawQualifying' = [sawQualifying EXCEPT ![h] =
           @ \/ (Status[i[h]] /\ currentConns[h] < MaximumActiveConnections(i[h]))]
    /\ \/ /\ Skips(i[h], currentConns[h])
          /\ EndIteration(h, optimalServer[h])
          /\ Observe(h, optimalServer[h], Observation(NotRead, 0, NotRead))
       \/ /\ ~Skips(i[h], currentConns[h])
          /\ optimalServer[h] = 0
          /\ EndIteration(h, i[h])
          /\ Observe(h, i[h], Observation(currentConns[h], 0, NotRead))
       \/ /\ ~Skips(i[h], currentConns[h])
          /\ optimalServer[h] # 0
          /\ pc' = [pc EXCEPT ![h] = "compare"]
          /\ UNCHANGED <<i, currentConns, optimalServer, response, returned, scan>>
    /\ UNCHANGED <<phase, conf, srvVars, TotalActiveConnections, TotalRequests,
                   totalIncs, acct, monVars>>

\* Lines 68-71: the load of optimalServer's connections and the comparison.
ScanCompare(h) ==
    /\ Running
    /\ pc[h] = "compare"
    /\ IF ReplacesOptimal(i[h], currentConns[h], optimalServer[h])
       THEN EndIteration(h, i[h])
       ELSE EndIteration(h, optimalServer[h])
    /\ Observe(h, optimalServer[h],
               Observation(currentConns[h], optimalServer[h],
                           CurrentActiveConnections[optimalServer[h]]))
    /\ UNCHANGED <<phase, conf, srvVars, TotalActiveConnections, TotalRequests,
                   totalIncs, sawQualifying, acct, monVars>>

\* Line 46.
IncServer(h) ==
    /\ Running
    /\ pc[h] = "incServer"
    /\ CurrentActiveConnections' = [CurrentActiveConnections EXCEPT
           ![optimalServer[h]] = @ + ServerIncDelta]
    /\ acct' = [acct EXCEPT ![h].incS = Append(@, optimalServer[h])]
    /\ scan' = [scan EXCEPT ![h] = <<>>]
    /\ pc' = [pc EXCEPT ![h] = "incTotal"]
    /\ UNCHANGED <<phase, conf, Servers, Status, cntVars, i, currentConns,
                   optimalServer, response, sawQualifying, monVars>>

\* Line 47.
IncTotal(h) ==
    /\ Running
    /\ pc[h] = "incTotal"
    /\ TotalActiveConnections' = TotalActiveConnections + IncDelta
    /\ totalIncs' = totalIncs + 1
    /\ acct' = [acct EXCEPT ![h].incT = @ + 1]
    /\ pc' = [pc EXCEPT ![h] = "forward"]
    /\ UNCHANGED <<phase, conf, srvVars, TotalRequests, returned, i, currentConns,
                   optimalServer, response, sawQualifying, scan, monVars>>

\* Line 54: the forward to optimalServer's backend, however it ends.
Forward(h) ==
    /\ Running
    /\ pc[h] = "forward"
    /\ \E result \in ForwardResults :
          /\ response' = [response EXCEPT ![h] = result]
          /\ pc' = [pc EXCEPT ![h] = AfterForward(result)]
          /\ returned' = IF AfterForward(result) = "done" THEN returned + 1 ELSE returned
    /\ acct' = [acct EXCEPT ![h].fwd = Append(@, optimalServer[h])]
    /\ UNCHANGED <<phase, conf, srvVars, TotalActiveConnections, TotalRequests, totalIncs,
                   i, currentConns, optimalServer, sawQualifying, scan, monVars>>

\* Line 50, in the deferred function.
DecServer(h) ==
    /\ Running
    /\ pc[h] = "decServer"
    /\ CurrentActiveConnections' = [CurrentActiveConnections EXCEPT
           ![optimalServer[h]] = @ + DecDelta]
    /\ acct' = [acct EXCEPT ![h].decS = Append(@, optimalServer[h])]
    /\ pc' = [pc EXCEPT ![h] = "decTotal"]
    /\ UNCHANGED <<phase, conf, Servers, Status, cntVars, i, currentConns,
                   optimalServer, response, sawQualifying, scan, monVars>>

\* Line 51, and the return of ServeHTTP.
DecTotal(h) ==
    /\ Running
    /\ pc[h] = "decTotal"
    /\ TotalActiveConnections' = TotalActiveConnections + DecDelta
    /\ acct' = [acct EXCEPT ![h].decT = @ + 1]
    /\ pc' = [pc EXCEPT ![h] = "done"]
    /\ returned' = returned + 1
    /\ UNCHANGED <<phase, conf, srvVars, TotalRequests, totalIncs, i, currentConns,
                   optimalServer, response, sawQualifying, scan, monVars>>

(***************************************************************************)
(* The health monitor: healthCheck's loop (mpc) and the probe goroutine of *)
(* each server (probe[s]).                                                 *)
(*   mpc:      spawn  lines 90-106, about to start the goroutine of mi     *)
(*             wait   line 107, wg.Wait                                    *)
(*             tick   line 108, the receive from ticker.C                  *)
(*   mpc:      ticker line 85, time.NewTicker                              *)
(*   probe[s]: idle   not started in this cycle                            *)
(*             get    lines 94-104, in client.Get                          *)
(*             stored line 104 done, before the deferred wg.Done           *)
(*             done   returned (wg.Done)                                   *)
(* outcome[s] is what client.Get returned in this cycle: ProbeError or the *)
(* reply's status.  launches[s] counts the goroutines started for s in     *)
(* this cycle, stores[s] the Status.Store calls on s in this cycle.        *)
(***************************************************************************)
\* What a backend's /health can answer.  An address url.Parse rejects
\* stays rejected with "/health" appended: client.Get returns an error.
ProbeResults(s) ==
    IF Servers[s].urlOK
    THEN {ProbeError} \cup ReplyStatuses
    ELSE {ProbeError}

\* err == nil alone: any reply marks the server up.
NewStatusAnyReply(result) == result # ProbeError

\* Lines 96-99: err == nil && resp.StatusCode == 200.
NewStatus(result) == result # ProbeError /\ result = StatusOK

\* No wait: the loop goes on to the ticker with probes in flight.
WaitSkipped == TRUE

\* Line 107: wg.Wait returns when the counter is zero.
WaitReturns == wg = 0

\* Lines 84-88: time.NewTicker panics when the pause is not positive, and
\* the panic of a goroutine that nothing recovers ends the process;
\* otherwise healthCheck enters its loop.
NewTicker ==
    /\ Running
    /\ mpc = "ticker"
    /\ IF conf.healthPause <= 0
       THEN /\ phase' = "crashed"
            /\ UNCHANGED mpc
       ELSE /\ mpc' = IF Len(Servers) = 0 THEN "wait" ELSE "spawn"
            /\ UNCHANGED phase
    /\ UNCHANGED <<conf, srvVars, cntVars, reqVars, mi, wg, probe, outcome, launches,
                   stores>>

\* Lines 90-92: wg.Add(1) and the go statement for Servers[mi].
Spawn ==
    /\ Running
    /\ mpc = "spawn"
    /\ wg' = wg + 1
    /\ probe' = [probe EXCEPT ![mi] = "get"]
    /\ launches' = [launches EXCEPT ![mi] = @ + 1]
    /\ mi' = mi + 1
    /\ mpc' = IF mi = Len(Servers) THEN "wait" ELSE "spawn"
    /\ UNCHANGED <<phase, conf, srvVars, cntVars, reqVars, outcome, stores>>

\* A probe that also clears the connection count of a server it marks down.
ProbeResetsConnections(s) ==
    /\ Running
    /\ probe[s] = "get"
    /\ \E result \in ProbeResults(s) :
          /\ outcome' = [outcome EXCEPT ![s] = result]
          /\ Status' = [Status EXCEPT ![s] = NewStatus(result)]
          /\ CurrentActiveConnections' =
                 IF NewStatus(result)
                 THEN CurrentActiveConnections
                 ELSE [CurrentActiveConnections EXCEPT ![s] = 0]
    /\ probe' = [probe EXCEPT ![s] = "stored"]
    /\ stores' = [stores EXCEPT ![s] = @ + 1]
    /\ UNCHANGED <<phase, conf, Servers, cntVars, reqVars, mpc, mi, wg, launches>>

\* Lines 94-104: client.Get returns result, a value of the goroutine
\* alone, and the goroutine stores the new status.
Probe(s) ==
    /\ Running
    /\ probe[s] = "get"
    /\ \E result \in ProbeResults(s) :
          /\ outcome' = [outcome EXCEPT ![s] = result]
          /\ Status' = [Status EXCEPT ![s] = NewStatus(result)]
    /\ probe' = [probe EXCEPT ![s] = "stored"]
    /\ stores' = [stores EXCEPT ![s] = @ + 1]
    /\ UNCHANGED <<phase, conf, Servers, CurrentActiveConnections, cntVars, reqVars,
                   mpc, mi, wg, launches>>

\* Line 93: the deferred wg.Done, when the goroutine returns.
ProbeDone(s) ==
    /\ Running
    /\ probe[s] = "stored"
    /\ probe' = [probe EXCEPT ![s] = "done"]
    /\ wg' = wg - 1
    /\ UNCHANGED <<phase, conf, srvVars, cntVars, reqVars, mpc, mi, outcome, launches,
                   stores>>

\* Line 107.
Wait ==
    /\ Running
    /\ mpc = "wait"
    /\ WaitReturns
    /\ mpc' = "tick"
    /\ UNCHANGED <<phase, conf, srvVars, cntVars, reqVars, mi, wg, probe, outcome, launches,
                   stores>>

\* Line 108 and the top of the next iteration of line 88's loop.
Tick ==
    /\ Running
    /\ mpc = "tick"
    /\ mpc' = IF Len(Servers) = 0 THEN "wait" ELSE "spawn"
    /\ mi' = 1
    /\ probe' = [s \in ServerIdx |-> IF probe[s] = "done" THEN "idle" ELSE probe[s]]
    /\ outcome' = [s \in ServerIdx |-> IF probe[s] = "done" THEN ProbeError ELSE outcome[s]]
    /\ launches' = [s \in ServerIdx |-> 0]
    /\ stores' = [s \in ServerIdx |-> 0]
    /\ UNCHANGED <<phase, conf, srvVars, cntVars, reqVars, wg>>

Startup ==
    /\ phase = "boot"
    /\ \E kind \in FileKinds, file \in Files, pause \in HealthTimeouts,
          nilDeref \in BOOLEAN :
          Main(kind, file, pause, nilDeref)

Request == \E h \in Handlers :
    \/ Enter(h)
    \/ ScanLoad(h)
    \/ ScanStatus(h)
    \/ ScanCompare(h)
    \/ IncServer(h)
    \/ IncTotal(h)
    \/ Forward(h)
    \/ DecServer(h)
    \/ DecTotal(h)

Monitor ==
    \/ NewTicker
    \/ Spawn
    \/ Wait
    \/ Tick
    \/ \E s \in ServerIdx : Probe(s)
    \/ \E s \in ServerIdx : ProbeDone(s)

\* Lines 254-266: the serving process ends.  ListenAndServeTLS returns its
\* error (at once when the certificate or the port is missing, or later)
\* and the listener's goroutine calls os.Exit(1); or model.Update returns
\* tea.Quit on q or ctrl+c (lines 168-169), p.Run returns and main returns
\* or calls os.Exit(1).  Every goroutine ends where it is: no handler and
\* no probe takes another step.
Exit ==
    /\ Running
    /\ phase' = "exited"
    /\ UNCHANGED <<conf, srvVars, cntVars, reqVars, monVars>>

Next == Startup \/ Request \/ Monitor \/ Exit

Spec == Init /\ [][Next]_vars

(***************************************************************************)
(* The selector on a registry that does not change during the scan: every  *)
(* registry main can build (any length, any capacities) in every state the *)
(* counters and flags can take, and one handler that runs selectServer.    *)
(* An address url.Parse rejects is never marked up, so its server is one   *)
(* of the servers that are down.                                           *)
(***************************************************************************)
Snapshots == {list \in ServerLists : \A s \in 1..Len(list) : list[s].urlOK}

SelectInit ==
    /\ phase = "serving"
    /\ conf = PlainConfiguration
    /\ Servers \in Snapshots
    /\ CurrentActiveConnections \in [1..Len(Servers) -> (0 - 1)..MaxActive]
    /\ Status \in [1..Len(Servers) -> BOOLEAN]
    /\ TotalActiveConnections = 0
    /\ TotalRequests = 0
    /\ totalIncs = 0
    /\ returned = 0
    /\ pc = [h \in Handlers |-> "idle"]
    /\ i = [h \in Handlers |-> 0]
    /\ currentConns = [h \in Handlers |-> 0]
    /\ optimalServer = [h \in Handlers |-> 0]
    /\ response = [h \in Handlers |-> "none"]
    /\ sawQualifying = [h \in Handlers |-> FALSE]
    /\ scan = [h \in Handlers |-> <<>>]
    /\ acct = [h \in Handlers |-> ZeroAcct]
    /\ mpc = "off"
    /\ mi = 0
    /\ wg = 0
    /\ probe = [s \in 1..Len(Servers) |-> "idle"]
    /\ outcome = [s \in 1..Len(Servers) |-> ProbeError]
    /\ launches = [s \in 1..Len(Servers) |-> 0]
    /\ stores = [s \in 1..Len(Servers) |-> 0]

SelectNext ==
    \/ Enter(1)
    \/ ScanLoad(1)
    \/ ScanStatus(1)
    \/ ScanCompare(1)

SelectSpec == SelectInit /\ [][SelectNext]_vars

(***************************************************************************)
(* The monitor under the scheduling the runtime gives it while the process *)
(* lives: every goroutine that can take a step takes it, the ticker fires, *)
(* and client.Get returns (its client has a timeout).  Nothing obliges the *)
(* process to end or to go on: Exit has no fairness, and once it is taken  *)
(* no step of the monitor is enabled.                                      *)
(***************************************************************************)
MonitorFairness ==
    /\ WF_vars(NewTicker)
    /\ WF_vars(Spawn)
    /\ WF_vars(Wait)
    /\ WF_vars(Tick)
    /\ \A s \in 1..MaxServers : WF_vars(s \in ServerIdx /\ Probe(s))
    /\ \A s \in 1..MaxServers : WF_vars(s \in ServerIdx /\ ProbeDone(s))

\* The steps of the process with a single connection open: the monitor
\* beside one handler.
MonitorNext ==
    \/ Startup
    \/ Monitor
    \/ Exit
    \/ Enter(1)
    \/ ScanLoad(1)
    \/ ScanStatus(1)
    \/ ScanCompare(1)
    \/ IncServer(1)
    \/ IncTotal(1)
    \/ Forward(1)
    \/ DecServer(1)
    \/ DecTotal(1)

FairSpec == Init /\ [][MonitorNext]_vars /\ MonitorFairness

(***************************************************************************)
(* ServeHTTP alone on a registry that does not change: the snapshots of    *)
(* SelectInit, and one handler that runs every line of ServeHTTP.          *)
(***************************************************************************)
ServeNext ==
    \/ Enter(1)
    \/ ScanLoad(1)
    \/ ScanStatus(1)
    \/ ScanCompare(1)
    \/ IncServer(1)
    \/ IncTotal(1)
    \/ Forward(1)
    \/ DecServer(1)
    \/ DecTotal(1)

ServeSpec == SelectInit /\ [][ServeNext]_vars

(***************************************************************************)
(* The process when no handler increments a server's connections while     *)
(* another handler is between the start of its scan and its own increment  *)
(* (lines 40-46): everything else, the decrements and the monitor's writes *)
(* included, interleaves as in Spec.                                       *)
(***************************************************************************)
\* h is in selectServer, or back from it with a server it has not yet
\* incremented.
ScanToIncrement(h) == pc[h] \in {"load", "status", "compare", "incServer"}

\* Line 46 when no other handler is between its scan and its increment.
IncServerUninterleaved(h) ==
    /\ \A g \in Handlers \ {h} : ~ScanToIncrement(g)
    /\ IncServer(h)

SerialRequest == \E h \in Handlers :
    \/ Enter(h)
    \/ ScanLoad(h)
    \/ ScanStatus(h)
    \/ ScanCompare(h)
    \/ IncServerUninterleaved(h)
    \/ IncTotal(h)
    \/ Forward(h)
    \/ DecServer(h)
    \/ DecTotal(h)

SerialNext == Startup \/ SerialRequest \/ Monitor \/ Exit

SerialSpec == Init /\ [][SerialNext]_vars

(***************************************************************************)
(* Vocabulary of the properties.                                           *)
(***************************************************************************)
\* selectServer has returned to h's ServeHTTP.
Selected(h) == pc[h] \in {"incServer", "incTotal", "forward", "decServer", "decTotal", "done"}

\* h's ServeHTTP is between its entry and its return.
InServeHTTP(h) == pc[h] \notin {"idle", "done"}

AllCapacitiesPositive == \A s \in ServerIdx : MaximumActiveConnections(s) > 0

\* Healthy with a free slot.
Qualifies(s) == Status[s] /\ CurrentActiveConnections[s] < MaximumActiveConnections(s)

Qualifying == {s \in ServerIdx : Qualifies(s)}

\* s's ratio activeConnections/capacity is minimal among the qualifying
\* servers (their capacities are positive).
MinimalRatio(s) ==
    \A t \in Qualifying :
        CurrentActiveConnections[s] * MaximumActiveConnections(t)
            <= CurrentActiveConnections[t] * MaximumActiveConnections(s)

\* The lowest index among the qualifying servers of minimal ratio.
LeastLoaded ==
    CHOOSE s \in Qualifying :
        /\ MinimalRatio(s)
        /\ \A t \in Qualifying : MinimalRatio(t) => s <= t

(***************************************************************************)
(* C1.  On a registry with positive capacities that does not change during *)
(* the scan, selectServer never returns a server that is unhealthy or has  *)
(* activeConnections >= capacity.                                          *)
(***************************************************************************)
C1_NeverUnhealthyOrFull ==
    \A h \in Handlers :
        (AllCapacitiesPositive /\ Selected(h) /\ optimalServer[h] # 0)
            => Qualifies(optimalServer[h])

\* The scan passed over server 1, healthy with capacity 1 and 1 connection,
\* and returned server 2.
C1_Witness ==
    /\ AllCapacitiesPositive
    /\ pc[1] = "incServer"
    /\ optimalServer[1] = 2
    /\ Status[1]
    /\ MaximumActiveConnections(1) = 1
    /\ CurrentActiveConnections[1] = 1

\* The same scan passing over an unhealthy server with spare capacity.
C1_WitnessUnhealthy ==
    /\ AllCapacitiesPositive
    /\ pc[1] = "incServer"
    /\ optimalServer[1] = 2
    /\ ~Status[1]
    /\ CurrentActiveConnections[1] < MaximumActiveConnections(1)

(***************************************************************************)
(* C2.  On a registry that does not change during the scan and has a       *)
(* qualifying server, selectServer returns the qualifying server of        *)
(* minimal activeConnections/capacity, the lowest index on a tie.          *)
(***************************************************************************)
C2_LeastLoadedReturned ==
    \A h \in Handlers :
        (Selected(h) /\ Qualifying # {})
            => (pc[h] = "incServer" /\ optimalServer[h] = LeastLoaded)

\* C2 on the registries whose capacities are all positive.
C2_LeastLoadedWithPositiveCapacities ==
    \A h \in Handlers :
        (AllCapacitiesPositive /\ Selected(h) /\ Qualifying # {})
            => (pc[h] = "incServer" /\ optimalServer[h] = LeastLoaded)

\* A later server of strictly smaller ratio replaced an earlier qualifying one.
C2_WitnessPositive ==
    /\ AllCapacitiesPositive
    /\ pc[1] = "incServer"
    /\ optimalServer[1] = 2
    /\ Qualifies(1)
    /\ CurrentActiveConnections[1] > 0

(***************************************************************************)
(* C3.  A request for which selectServer returned a server increments that *)
(* server's activeConnections and totalActiveConnections once each before  *)
(* the forward and decrements the same two once each after it, however the *)
(* forward ends; it decrements no server but the one it incremented.       *)
(***************************************************************************)
C3_AccountingSymmetry ==
    \A h \in Handlers :
        LET a == acct[h]
            s == optimalServer[h]
        IN  /\ Len(a.decS) <= Len(a.incS)
            /\ \A k \in 1..Len(a.decS) : a.decS[k] = a.incS[k]
            /\ a.decT <= a.incT
            /\ pc[h] = "forward"
                  => a = [incS |-> <<s>>, decS |-> <<>>, incT |-> 1, decT |-> 0, fwd |-> <<>>]
            /\ pc[h] = "decServer"
                  => a = [incS |-> <<s>>, decS |-> <<>>, incT |-> 1, decT |-> 0, fwd |-> <<s>>]
            /\ (pc[h] = "done" /\ s # 0)
                  => a = [incS |-> <<s>>, decS |-> <<s>>, incT |-> 1, decT |-> 1, fwd |-> <<s>>]

\* A request whose forward panicked has returned with its decrements made,
\* on server 2 of a registry of two.
C3_Witness ==
    \E h \in Handlers :
        /\ pc[h] = "done"
        /\ response[h] = "aborted"
        /\ optimalServer[h] = 2
        /\ acct[h].decS = <<2>>
        /\ acct[h].decT = 1

(***************************************************************************)
(* C4.  A request whose scan found every server unhealthy or with          *)
(* activeConnections >= capacity gets none from selectServer and a 503,    *)
(* is not forwarded, and changes no connection counter.                    *)
(***************************************************************************)
C4_ExhaustionRejects ==
    \A h \in Handlers :
        (Selected(h) /\ ~sawQualifying[h])
            => /\ pc[h] = "done"
               /\ optimalServer[h] = 0
               /\ response[h] = "unavailable"
               /\ acct[h] = ZeroAcct

\* C4 on the registries whose capacities are all positive.
C4_ExhaustionRejectsWithPositiveCapacities ==
    AllCapacitiesPositive => C4_ExhaustionRejects

\* A request was rejected while another was in flight on a full server.
C4_WitnessPositive ==
    \E h, g \in Handlers :
        /\ AllCapacitiesPositive
        /\ Len(Servers) = 2
        /\ pc[h] = "done"
        /\ response[h] = "unavailable"
        /\ pc[g] = "forward"
        /\ Status[optimalServer[g]]

(***************************************************************************)
(* C5.  Under every interleaving of handlers and probes, every server's    *)
(* activeConnections and totalActiveConnections are at least 0.            *)
(***************************************************************************)
C5_CountersNonNegative ==
    /\ TotalActiveConnections >= 0
    /\ \A s \in ServerIdx : CurrentActiveConnections[s] >= 0

\* What the program keeps: no counter is ever below the value the
\* configuration file gave it, which is 0 for a key the file does not have.
C5_CountersAtLeastTheirStart ==
    /\ TotalActiveConnections >= conf.TotalActiveConnections
    /\ \A s \in ServerIdx :
          CurrentActiveConnections[s] >= Servers[s].CurrentActiveConnections

\* Both handlers are past their increments on one server while the monitor
\* has a probe in flight, and one has already made its first decrement.
C5_WitnessAtLeastTheirStart ==
    \E h, g \in Handlers, s \in ServerIdx :
        /\ h # g
        /\ pc[h] = "decTotal"
        /\ pc[g] = "forward"
        /\ optimalServer[h] = s
        /\ optimalServer[g] = s
        /\ probe[s] = "get"

(***************************************************************************)
(* C6.  When a monitor cycle is complete, every server is healthy exactly  *)
(* if that cycle's probe of it returned without error with status 200,     *)
(* whatever it was before.                                                 *)
(***************************************************************************)
C6_HealthFollowsProbe ==
    mpc = "tick" =>
        \A s \in ServerIdx : Status[s] <=> (outcome[s] # ProbeError /\ outcome[s] = StatusOK)

\* A cycle is complete in which a server that was healthy (a request chosen
\* while it was is still in flight on it) failed its probe and is down, and
\* the other server, down at startup, passed its probe and is up.
C6_Witness ==
    \E h \in Handlers, s, u \in ServerIdx :
        /\ mpc = "tick"
        /\ pc[h] = "forward"
        /\ optimalServer[h] = s
        /\ outcome[s] = ProbeError
        /\ ~Status[s]
        /\ u # s
        /\ outcome[u] = StatusOK
        /\ Status[u]

(***************************************************************************)
(* C7.  Every cycle starts exactly one probe per server; a probe in flight *)
(* can complete whatever the other probes do; the monitor does not leave   *)
(* wg.Wait, and so starts no next cycle, before every probe of the cycle   *)
(* is done; and while the process serves, the loop goes on for ever: each  *)
(* cycle completes and another starts.                                     *)
(***************************************************************************)
C7_CycleShape ==
    /\ \A s \in ServerIdx : launches[s] <= 1
    /\ mpc \in {"wait", "tick"} => \A s \in ServerIdx : launches[s] = 1
    /\ mpc = "spawn" => \A s \in ServerIdx : launches[s] = (IF s < mi THEN 1 ELSE 0)
    /\ \A s \in ServerIdx : (Running /\ probe[s] = "get") => ENABLED Probe(s)
    /\ \A s \in ServerIdx : (Running /\ probe[s] = "stored") => ENABLED ProbeDone(s)
    /\ mpc = "tick" => \A s \in ServerIdx : probe[s] = "done"
    /\ wg = Cardinality({s \in ServerIdx : probe[s] \in {"get", "stored"}})

\* The monitor is in the loop of lines 88-109.
C7_InLoop == mpc \in {"spawn", "wait", "tick"}

\* The step that ends the process: the listener's os.Exit or main's end,
\* no step of the monitor.
C7_ProcessEnds == phase' = "exited" /\ UNCHANGED monVars

\* The loop is entered when time.NewTicker has returned, which it does for
\* a -health-timeout above 0; for any other it panics at line 85, before
\* the first cycle, and the process ends.  The monitor has no step that
\* leaves the loop; the loop stops only with the process, and until then
\* every cycle completes and another starts.
C7_MonitorCycles ==
    /\ []C7_CycleShape
    /\ [][mpc = "tick" /\ mpc' # "tick" => \A s \in ServerIdx : probe[s] = "done"]_vars
    /\ [][C7_InLoop => C7_InLoop']_vars
    /\ [][(C7_InLoop /\ Running /\ ~Running') => C7_ProcessEnds]_vars
    /\ (Running /\ conf.healthPause > 0 /\ mpc # "tick") ~> (mpc = "tick" \/ ~Running)
    /\ (Running /\ mpc = "tick") ~> (mpc # "tick" \/ ~Running)

\* The probe of server 2 is done, with its result written, while the probe
\* of server 1, started before it, is still in flight.
C7_Witness ==
    /\ Len(Servers) = 2
    /\ mpc = "wait"
    /\ probe[1] = "get"
    /\ probe[2] = "done"
    /\ Status[2]
    /\ launches = <<1, 1>>

(***************************************************************************)
(* C8.  totalRequests counts every request once, on entry, dispatched or   *)
(* rejected: it equals the number of requests that have entered ServeHTTP, *)
(* it is at least the number of increments of totalActiveConnections, and  *)
(* it never decreases.                                                     *)
(***************************************************************************)
C8_RequestsCounted ==
    /\ [](TotalRequests = Entered /\ TotalRequests >= totalIncs)
    /\ [][TotalRequests' >= TotalRequests]_vars

\* What the program keeps: totalRequests is the value the configuration
\* file gave it, 0 when the file has no "TotalRequests" key, plus one for
\* every request that has entered ServeHTTP, and once the process serves
\* it never decreases.
C8_RequestsCountedFromTheirStart ==
    /\ [](/\ TotalRequests = conf.TotalRequests + Entered
          /\ TotalRequests - conf.TotalRequests >= totalIncs)
    /\ [][Running => TotalRequests' >= TotalRequests]_vars

\* Two requests have entered: one was rejected, the other is being forwarded.
C8_WitnessFromTheirStart ==
    \E h, g \in Handlers :
        /\ pc[h] = "done"
        /\ response[h] = "unavailable"
        /\ pc[g] = "forward"
        /\ TotalRequests = conf.TotalRequests + 2
        /\ totalIncs = 1

(***************************************************************************)
(* C9.  Two handlers can both select a healthy server that has one free    *)
(* slot and take it one over its capacity; from there, a decrement by a    *)
(* request that completes brings it back to its capacity or below; and a   *)
(* scan that reads a server at or over its capacity does not select it.    *)
(* A server over its capacity that started at or below it has at least as  *)
(* many requests in flight that have still to decrement it as it is over.  *)
(***************************************************************************)
C9_PendingDecrements(s) ==
    {h \in Handlers : optimalServer[h] = s /\ pc[h] \in {"incTotal", "forward", "decServer"}}

C9_TransientOverCapacity ==
    /\ [](\A s \in ServerIdx :
            (MaximumActiveConnections(s) >= 1
                /\ Servers[s].CurrentActiveConnections <= MaximumActiveConnections(s)
                /\ CurrentActiveConnections[s] > MaximumActiveConnections(s))
              => Cardinality(C9_PendingDecrements(s))
                   >= CurrentActiveConnections[s] - MaximumActiveConnections(s))
    /\ [][\A s \in ServerIdx :
            (/\ MaximumActiveConnections(s) >= 1
             /\ CurrentActiveConnections[s] = MaximumActiveConnections(s) + 1
             /\ CurrentActiveConnections'[s] # CurrentActiveConnections[s]
             /\ \E h \in Handlers : pc[h] = "decServer" /\ pc'[h] = "decTotal")
               => CurrentActiveConnections'[s] <= MaximumActiveConnections(s)]_vars
    /\ [][\A h \in Handlers :
            (/\ InServeHTTP(h)
             /\ optimalServer'[h] # optimalServer[h]
             /\ optimalServer'[h] # 0
             /\ MaximumActiveConnections(optimalServer'[h]) >= 1)
               => /\ optimalServer'[h] = i[h]
                  /\ currentConns[h] < MaximumActiveConnections(i[h])]_vars

\* Both handlers have selected and incremented server s, which had one free
\* slot: it is one over its capacity.
C9_Witness ==
    \E h, g \in Handlers, s \in ServerIdx :
        /\ h # g
        /\ optimalServer[h] = s /\ pc[h] \in {"incTotal", "forward", "decServer"}
        /\ optimalServer[g] = s /\ pc[g] \in {"incTotal", "forward", "decServer"}
        /\ MaximumActiveConnections(s) >= 1
        /\ CurrentActiveConnections[s] = MaximumActiveConnections(s) + 1

(***************************************************************************)
(* C10.  main refuses an empty server list, a capacity <= 0 and an address *)
(* that does not parse: whenever the process serves, the registry is not   *)
(* empty, every capacity is positive and every address parsed.             *)
(***************************************************************************)
C10_ConfigurationValidated ==
    phase = "serving" =>
        /\ Len(Servers) > 0
        /\ \A s \in ServerIdx : MaximumActiveConnections(s) > 0 /\ Servers[s].urlOK

(***************************************************************************)
(* C11.  With two servers, both unhealthy, a request gets none from        *)
(* selectServer and a 503, and no step of it changes a counter: every      *)
(* server's activeConnections, totalActiveConnections and totalRequests    *)
(* are after the request what they were before it.                         *)
(***************************************************************************)
C11_BothUnhealthy == Len(Servers) = 2 /\ \A s \in ServerIdx : ~Status[s]

C11_Rejected ==
    (C11_BothUnhealthy /\ Selected(1))
        => /\ pc[1] = "done"
           /\ optimalServer[1] = 0
           /\ response[1] = "unavailable"
           /\ acct[1] = ZeroAcct

C11_RejectionChangesNoCounter ==
    /\ []C11_Rejected
    /\ [][C11_BothUnhealthy =>
            UNCHANGED <<CurrentActiveConnections, TotalActiveConnections,
                        TotalRequests, srvVars>>]_vars

\* C11 as the program has it: the request is rejected with no connection
\* counter, flag or registry entry changed, and totalRequests is one higher
\* than before the request, counted by the step that enters ServeHTTP.
C11_RejectionCountsRequestOnly ==
    /\ []C11_Rejected
    /\ [][C11_BothUnhealthy =>
            /\ UNCHANGED <<CurrentActiveConnections, TotalActiveConnections, srvVars>>
            /\ TotalRequests' =
                   TotalRequests + (IF InServeHTTP(1) THEN 0 ELSE 1)]_vars

\* A request on two unhealthy servers, one of them with connections open,
\* has been rejected and counted.
C11_Witness ==
    /\ C11_BothUnhealthy
    /\ pc[1] = "done"
    /\ response[1] = "unavailable"
    /\ TotalRequests = 1
    /\ TotalActiveConnections = 0
    /\ CurrentActiveConnections[2] > 0

(***************************************************************************)
(* C12.  While the process serves, a step of a handler changes nothing of  *)
(* the shared state but the connection count of the server it chose,       *)
(* totalActiveConnections and totalRequests, and never a health flag; a    *)
(* step of the monitor changes nothing of it but health flags, and never a *)
(* connection count or a process counter; and no step changes the          *)
(* registry: its length, its order or a server's descriptor.               *)
(***************************************************************************)
C12_HandlerStep(h) == pc'[h] # pc[h]

C12_MonitorStep == phase = "serving" /\ monVars' # monVars

C12_WriterSeparation ==
    /\ [][phase = "serving" => Servers' = Servers]_vars
    /\ [][\A h \in Handlers :
            C12_HandlerStep(h) =>
                /\ UNCHANGED <<phase, conf, Servers, Status, monVars>>
                /\ \A s \in ServerIdx :
                      CurrentActiveConnections'[s] # CurrentActiveConnections[s]
                          => s = optimalServer[h]]_vars
    /\ [][C12_MonitorStep =>
            /\ UNCHANGED <<phase, conf, Servers, CurrentActiveConnections, cntVars, reqVars>>
            /\ \A s \in ServerIdx :
                  Status'[s] # Status[s] => probe[s] = "get"]_vars

\* Both writers have written: a handler has incremented server 1 of two and
\* totalActiveConnections, and in the same cycle the monitor has marked
\* server 1 down and server 2 up.
C12_Witness ==
    \E h \in Handlers :
        /\ Len(Servers) = 2
        /\ pc[h] = "forward"
        /\ optimalServer[h] = 1
        /\ CurrentActiveConnections = <<1, 0>>
        /\ TotalActiveConnections = 1
        /\ Status = <<FALSE, TRUE>>
        /\ probe = <<"done", "done">>

(***************************************************************************)
(* C13.  A request calls selectServer at most once and is forwarded at     *)
(* most once, to the server selectServer returned: once selectServer has   *)
(* returned, the request never scans again and never changes its server,   *)
(* and once the forward has ended, however it ended and whatever the       *)
(* server's health flag has become, all that is left of the request is its *)
(* decrement of that server, the decrement of totalActiveConnections, and  *)
(* the return.                                                             *)
(***************************************************************************)
C13_ForwardedOnce ==
    \A h \in Handlers :
        /\ Len(acct[h].fwd) <= 1
        /\ Len(acct[h].decS) <= 1
        /\ acct[h].fwd # <<>> => acct[h].fwd = <<optimalServer[h]>>
        /\ pc[h] \in {"decServer", "decTotal"} => acct[h].fwd = <<optimalServer[h]>>

C13_NoRetry ==
    /\ []C13_ForwardedOnce
    /\ [][\A h \in Handlers :
            (Selected(h) /\ InServeHTTP(h))
                => /\ pc'[h] \notin {"load", "status", "compare"}
                   /\ optimalServer'[h] = optimalServer[h]]_vars
    /\ [][\A h \in Handlers :
            (pc[h] = "decServer" /\ pc'[h] # pc[h])
                => /\ pc'[h] = "decTotal"
                   /\ acct'[h].decS = <<optimalServer[h]>>
                   /\ acct'[h].fwd = acct[h].fwd
                   /\ CurrentActiveConnections' = [CurrentActiveConnections EXCEPT
                          ![optimalServer[h]] = @ - 1]]_vars
    /\ [][\A h \in Handlers :
            (pc[h] = "decTotal" /\ pc'[h] # pc[h])
                => /\ pc'[h] = "done"
                   /\ acct'[h].fwd = acct[h].fwd
                   /\ CurrentActiveConnections' = CurrentActiveConnections]_vars

\* A request forwarded to server 1 has returned after the proxy could not
\* reach the backend, with server 1 marked down meanwhile and server 2
\* healthy with a free slot: it was forwarded to server 1 alone.
C13_Witness ==
    \E h \in Handlers :
        /\ Len(Servers) = 2
        /\ pc[h] = "done"
        /\ response[h] = "badGateway"
        /\ acct[h].fwd = <<1>>
        /\ acct[h].decS = <<1>>
        /\ ~Status[1]
        /\ Qualifies(2)

(***************************************************************************)
(* C14.  The step in which the monitor marks a server down changes no      *)
(* connection count, no process counter and nothing of any request, in     *)
(* flight on that server or not; a request in flight on a server, healthy  *)
(* or not, has its decrement of that server still to come, can take it as  *)
(* soon as its forward has ended if the process still runs, and has made   *)
(* it when it returns; and a scan that loads the flag of a server marked   *)
(* down passes over it.                                                    *)
(***************************************************************************)
C14_InFlight(h, s) ==
    optimalServer[h] = s /\ pc[h] \in {"incTotal", "forward", "decServer"}

C14_DecrementStillDue ==
    \A h \in Handlers, s \in ServerIdx :
        /\ C14_InFlight(h, s) => (acct[h].incS = <<s>> /\ acct[h].decS = <<>>)
        /\ (Running /\ optimalServer[h] = s /\ pc[h] = "decServer")
              => ENABLED DecServer(h)
        /\ (optimalServer[h] = s /\ pc[h] \in {"decTotal", "done"})
              => (acct[h].incS = <<s>> /\ acct[h].decS = <<s>>)

C14_HealthWriteLeavesRequests ==
    /\ []C14_DecrementStillDue
    /\ [][\A s \in ServerIdx :
            (Status[s] /\ ~Status'[s])
                => UNCHANGED <<CurrentActiveConnections, cntVars, reqVars>>]_vars
    /\ [][\A h \in Handlers :
            (pc[h] = "status" /\ pc'[h] # pc[h] /\ ~Status[i[h]])
                => /\ optimalServer'[h] = optimalServer[h]
                   /\ optimalServer'[h] # i[h]]_vars

\* Server s, with capacity to spare, was marked down by a failed probe
\* while h's request was in flight on it: h is still in its forward with
\* its increment counted, and g's request, which came after, was rejected.
C14_Witness ==
    \E h, g \in Handlers, s \in ServerIdx :
        /\ pc[h] = "forward"
        /\ optimalServer[h] = s
        /\ ~Status[s]
        /\ probe[s] = "done"
        /\ outcome[s] = ProbeError
        /\ CurrentActiveConnections[s] = 1
        /\ MaximumActiveConnections(s) = 2
        /\ pc[g] = "done"
        /\ response[g] = "unavailable"

(***************************************************************************)
(* What a scan read, from its observations.  They are complete when        *)
(* selectServer has returned a server and ServeHTTP has not yet            *)
(* incremented it.                                                         *)
(***************************************************************************)
Returning(h) == pc[h] = "incServer"

\* v(j): the load h's scan computed at line 60 when it visited server j.
SeenLoad(h, j) == Load(scan[h][j].conns, MaximumActiveConnections(j))

\* The load of optimalServer that line 68 computed when the scan compared
\* server j with it.
RereadLoad(h, j) ==
    Load(scan[h][j].bestConns, MaximumActiveConnections(scan[h][j].best))

\* The servers h's scan read healthy and below their capacity.
SeenQualifying(h) ==
    {j \in 1..Len(scan[h]) :
        /\ scan[h][j].conns # NotRead
        /\ scan[h][j].conns < MaximumActiveConnections(j)}

\* The iterations of h's scan that compared their server with server r.
ComparedWith(h, r) == {j \in 1..Len(scan[h]) : scan[h][j].best = r}

\* The connections of server r in the last load h's scan made of them: at
\* line 68 of the last iteration that compared a server with r, or at
\* line 60 of r's own iteration.
LastRead(h, r) ==
    IF ComparedWith(h, r) = {}
    THEN scan[h][r].conns
    ELSE LET j == CHOOSE k \in ComparedWith(h, r) : \A l \in ComparedWith(h, r) : l <= k
         IN  scan[h][j].bestConns

(***************************************************************************)
(* C15.  Under every interleaving of a scan with the increments and        *)
(* decrements of other requests, the last value the scan read of the       *)
(* connections of the server it returns, the re-read of line 68 included,  *)
(* is strictly below that server's capacity.                               *)
(***************************************************************************)
C15_LastReadBelowCapacity ==
    \A h \in Handlers :
        Returning(h) =>
            LastRead(h, optimalServer[h]) < MaximumActiveConnections(optimalServer[h])

\* C15 on the registries whose capacities are all positive.
C15_LastReadBelowCapacityWithPositiveCapacities ==
    AllCapacitiesPositive => C15_LastReadBelowCapacity

\* Server 1 was kept against server 2 after its connections, re-read at
\* line 68, had changed since line 60 read them.
C15_WitnessPositive ==
    \E h \in Handlers :
        /\ AllCapacitiesPositive
        /\ Returning(h)
        /\ Len(Servers) = 2
        /\ optimalServer[h] = 1
        /\ scan[h][2].best = 1
        /\ scan[h][2].bestConns # scan[h][1].conns

(***************************************************************************)
(* C16.  With v(j) the load a scan read when it visited qualifying server  *)
(* j, the server r it returns has v(r) <= v(j) for every qualifying server *)
(* j it visited, and v(r) < v(j) for every such j of lower index than r,   *)
(* whatever other requests do to the connection counts meanwhile.          *)
(***************************************************************************)
C16_SmallestSeenLoad ==
    \A h \in Handlers :
        Returning(h) =>
            \A j \in SeenQualifying(h) :
                /\ LoadLessOrEqual(SeenLoad(h, optimalServer[h]), SeenLoad(h, j))
                /\ j < optimalServer[h]
                      => LoadLess(SeenLoad(h, optimalServer[h]), SeenLoad(h, j))

\* C16 as the program has it.  The scan compares a server it does not pass
\* over with the load of the current best as line 68 reads it then, not as
\* line 60 read it when the best was visited.  The server r returned was
\* not passed over; if it was compared, its seen load was strictly less
\* than the re-read load of the best of that moment, and if it was not,
\* every server before it was passed over; and every later server that was
\* not passed over was compared with r and had a seen load not strictly
\* less than r's re-read load.
C16_SmallestAgainstReread ==
    \A h \in Handlers :
        Returning(h) =>
            LET r == optimalServer[h]
            IN  /\ Len(scan[h]) = Len(Servers)
                /\ scan[h][r].conns # NotRead
                /\ IF scan[h][r].best # 0
                   THEN /\ scan[h][r].best < r
                        /\ LoadLess(SeenLoad(h, r), RereadLoad(h, r))
                   ELSE \A j \in 1..(r - 1) : scan[h][j].conns = NotRead
                /\ \A j \in (r + 1)..Len(scan[h]) :
                      scan[h][j].conns # NotRead
                          => /\ scan[h][j].best = r
                             /\ ~LoadLess(SeenLoad(h, j), RereadLoad(h, j))

\* Server 2 replaced server 1 with the same seen load, 0 of a positive
\* capacity: server 1 had been incremented since the scan visited it.
C16_Witness ==
    \E h \in Handlers :
        /\ AllCapacitiesPositive
        /\ Returning(h)
        /\ Len(Servers) = 2
        /\ optimalServer[h] = 2
        /\ scan[h][1].conns = 0
        /\ scan[h][2].conns = 0
        /\ scan[h][2].best = 1
        /\ scan[h][2].bestConns = 1

\* Server 1 was kept though server 2's seen load was strictly less than
\* the load seen of server 1: server 1 had been decremented since.
C16_WitnessKept ==
    \E h \in Handlers :
        /\ AllCapacitiesPositive
        /\ Returning(h)
        /\ Len(Servers) = 2
        /\ optimalServer[h] = 1
        /\ scan[h][2].best = 1
        /\ LoadLess(SeenLoad(h, 2), SeenLoad(h, 1))

\* C16 itself on the registries whose capacities are all positive.
C16_SmallestSeenLoadWithPositiveCapacities ==
    AllCapacitiesPositive => C16_SmallestSeenLoad

(***************************************************************************)
(* C17.  In every reachable state each server's activeConnections is the   *)
(* number of requests that have incremented it and not yet decremented it, *)
(* and totalActiveConnections is the number of requests that have made the *)
(* global increment and not yet the global decrement; so whenever no       *)
(* request is between the two increments or between the two decrements,    *)
(* totalActiveConnections is the sum of the servers' activeConnections,    *)
(* and whenever every dispatched request has returned they are all 0.      *)
(***************************************************************************)
C17_OpenOn(s) ==
    {h \in Handlers : Len(acct[h].incS) > Len(acct[h].decS) /\ acct[h].incS[1] = s}

C17_OpenGlobal == {h \in Handlers : acct[h].incT > acct[h].decT}

\* h has updated one of the two counters and not yet the other.
C17_MidUpdate(h) ==
    Len(acct[h].incS) - Len(acct[h].decS) # acct[h].incT - acct[h].decT

RECURSIVE C17_SumConnections(_)
C17_SumConnections(n) ==
    IF n = 0 THEN 0 ELSE CurrentActiveConnections[n] + C17_SumConnections(n - 1)

C17_CountersCountRequests ==
    /\ \A s \in ServerIdx : CurrentActiveConnections[s] = Cardinality(C17_OpenOn(s))
    /\ TotalActiveConnections = Cardinality(C17_OpenGlobal)
    /\ (\A h \in Handlers : ~C17_MidUpdate(h))
          => TotalActiveConnections = C17_SumConnections(Len(Servers))
    /\ (\A h \in Handlers : pc[h] \in {"idle", "done", "load", "status", "compare", "incServer"})
          => /\ TotalActiveConnections = 0
             /\ \A s \in ServerIdx : CurrentActiveConnections[s] = 0

\* The configuration file gave every counter of connections the value 0,
\* as a file without the keys does.
C17_StartAtZero ==
    /\ conf.TotalActiveConnections = 0
    /\ \A s \in ServerIdx : Servers[s].CurrentActiveConnections = 0

\* What the program keeps: each counter is the value the file gave it plus
\* the number of requests open on it, whatever the file gave; so C17 holds
\* when the file gave 0.
C17_CountersCountRequestsFromTheirStart ==
    /\ \A s \in ServerIdx :
          CurrentActiveConnections[s]
              = Servers[s].CurrentActiveConnections + Cardinality(C17_OpenOn(s))
    /\ TotalActiveConnections
          = conf.TotalActiveConnections + Cardinality(C17_OpenGlobal)
    /\ C17_StartAtZero => C17_CountersCountRequests

\* Two requests are open on server 1 of two, one in its forward and one
\* between its two increments.
C17_WitnessFromZero ==
    \E h, g \in Handlers :
        /\ Len(Servers) = 2
        /\ C17_StartAtZero
        /\ pc[h] = "forward"
        /\ pc[g] = "incTotal"
        /\ optimalServer[h] = 1
        /\ optimalServer[g] = 1
        /\ CurrentActiveConnections = <<2, 0>>
        /\ TotalActiveConnections = 1

\* Every request has returned, one of them from a forward that panicked,
\* and the counters are back at 0.
C17_WitnessDrained ==
    \E h \in Handlers :
        /\ C17_StartAtZero
        /\ \A g \in Handlers : pc[g] = "done"
        /\ response[h] = "aborted"
        /\ returned = MaxRequests
        /\ TotalActiveConnections = 0

(***************************************************************************)
(* C18.  When no request's increment of a server falls between another     *)
(* request's scan and that request's own increment, the capacities are all *)
(* positive and the counters start at 0, every server's activeConnections  *)
(* is at most its capacity in every reachable state, whatever decrements   *)
(* and health writes interleave.                                           *)
(***************************************************************************)
\* The configuration file gave every counter the value 0.
C18_CountersStartAtZero ==
    /\ conf.TotalActiveConnections = 0
    /\ conf.TotalRequests = 0
    /\ \A s \in ServerIdx : Servers[s].CurrentActiveConnections = 0

C18_WithinCapacity ==
    (AllCapacitiesPositive /\ C18_CountersStartAtZero) =>
        \A s \in ServerIdx : CurrentActiveConnections[s] <= MaximumActiveConnections(s)

\* Server s is at its capacity of 2 with both requests open on it, the
\* second selected after the first had made its increment.
C18_Witness ==
    \E h, g \in Handlers, s \in ServerIdx :
        /\ AllCapacitiesPositive
        /\ C18_CountersStartAtZero
        /\ h # g
        /\ MaximumActiveConnections(s) = 2
        /\ CurrentActiveConnections[s] = 2
        /\ pc[h] = "forward" /\ optimalServer[h] = s
        /\ pc[g] = "incTotal" /\ optimalServer[g] = s

\* Server s, healthy with capacity 1, holds one request, and the other
\* request, whose scan came after that increment, was rejected.
C18_WitnessRejected ==
    \E h, g \in Handlers, s \in ServerIdx :
        /\ AllCapacitiesPositive
        /\ C18_CountersStartAtZero
        /\ Status[s]
        /\ MaximumActiveConnections(s) = 1
        /\ CurrentActiveConnections[s] = 1
        /\ pc[h] = "forward" /\ optimalServer[h] = s
        /\ pc[g] = "done" /\ response[g] = "unavailable"

(***************************************************************************)
(* C19.  At most one probe of a server is in flight at any time, and the   *)
(* probes of two cycles never overlap: the monitor starts a probe only     *)
(* when every probe in flight was started in the same cycle, it leaves a   *)
(* cycle only when each server's flag has been written exactly once in it, *)
(* and every write of a flag is the one write of the probe started for     *)
(* that server in the current cycle.                                       *)
(***************************************************************************)
\* The probes of s started in this cycle that have not yet written.
C19_InFlight(s) == launches[s] - stores[s]

\* The goroutines probing s: started, and not yet through wg.Done.
C19_Goroutines(s) == IF probe[s] \in {"get", "stored"} THEN 1 ELSE 0

C19_OneProbePerServer ==
    \A s \in ServerIdx :
        /\ stores[s] <= launches[s]
        /\ launches[s] <= 1
        /\ C19_InFlight(s) = (IF probe[s] = "get" THEN 1 ELSE 0)
        /\ C19_Goroutines(s) <= launches[s]
        /\ probe[s] \in {"stored", "done"} => stores[s] = 1
        /\ mpc = "tick" => stores[s] = 1

C19_CyclesDoNotOverlap ==
    /\ []C19_OneProbePerServer
    /\ [][\A s \in ServerIdx :
            launches'[s] > launches[s]
                => /\ probe[s] = "idle"
                   /\ launches[s] = 0
                   /\ stores[s] = 0
                   /\ \A u \in ServerIdx :
                         probe[u] # "idle" => (u < s /\ launches[u] = 1)]_vars
    /\ [][(mpc = "tick" /\ mpc' # "tick")
            => \A s \in ServerIdx :
                  launches[s] = 1 /\ stores[s] = 1 /\ probe[s] = "done"]_vars
    /\ [][\A s \in ServerIdx :
            (phase = "serving" /\ stores'[s] # stores[s] /\ mpc' = mpc)
                => /\ stores[s] = 0
                   /\ stores'[s] = 1
                   /\ launches[s] = 1
                   /\ probe[s] = "get"]_vars
    /\ [][\A s \in ServerIdx :
            (phase = "serving" /\ Status'[s] # Status[s])
                => stores'[s] = stores[s] + 1]_vars

\* In the second cycle: server 1, marked up by the first cycle, has its
\* second probe in flight, and server 2's second probe has marked it down.
C19_Witness ==
    /\ Len(Servers) = 2
    /\ mpc = "wait"
    /\ Status = <<TRUE, FALSE>>
    /\ probe = <<"get", "done">>
    /\ outcome[2] = 204
    /\ launches = <<1, 1>>
    /\ stores = <<0, 1>>

====
